---------------------------- MODULE Spec2Model ----------------------------
(***************************************************************************)
(* BeHuman empathic recommender: knowledge base, product tagger, scoring   *)
(* engine, message generator and orchestrator of                           *)
(* src/src/recommender/recommendation_engine.py, and the HR workflow of    *)
(* src/src/recommender/hr_workflow.py built on the orchestrator.           *)
(*                                                                         *)
(* Python strings are TLA+ strings; Len, SubSeq and \o act on them         *)
(* character by character.  The em-dash U+2014 of the benefit clause is    *)
(* outside the character range of TLA+ strings and is written EmDash: one  *)
(* character that is neither a period nor a space.                         *)
(***************************************************************************)
EXTENDS Integers, Sequences, FiniteSets, TLC

VARIABLES products_file, products, pc, op, profile, situation, top_n, recs,
          scores, calming, msg, response, tagged, cards, accepted,
          notification, outcome, reloads, load_i, load_seen, loaded_file

vars == <<products_file, products, pc, op, profile, situation, top_n, recs,
          scores, calming, msg, response, tagged, cards, accepted,
          notification, outcome, reloads, load_i, load_seen, loaded_file>>

(***************************************************************************)
(* Bounds of the model.                                                    *)
(***************************************************************************)
MaxCatalog == 3

MaxTopN == 2

NegTopN == 1

MaxReloads == 1

(***************************************************************************)
(* Python built-ins.                                                       *)
(***************************************************************************)
None == "<None>"

EmDash == "-"

Range(s) == {s[i] : i \in 1..Len(s)}

Min(a, b) == IF a <= b THEN a ELSE b

Max(a, b) == IF a >= b THEN a ELSE b

UpperChars == "ABCDEFGHIJKLMNOPQRSTUVWXYZÁÉÍÓÚÑ"

LowerChars == "abcdefghijklmnopqrstuvwxyzáéíóúñ"

UpperSet == {SubSeq(UpperChars, i, i) : i \in 1..Len(UpperChars)}

LowerMap ==
    [c \in UpperSet |->
       LET i == CHOOSE j \in 1..Len(UpperChars) : SubSeq(UpperChars, j, j) = c
       IN  SubSeq(LowerChars, i, i)]

\* str.lower() on one character
LowerChar(c) == IF c \in UpperSet THEN LowerMap[c] ELSE c

\* str.lower() on s, whose upper-case characters are at the positions in upper
RECURSIVE LowerAt(_, _)
LowerAt(s, upper) ==
    IF upper = {} THEN s
    ELSE LET i == CHOOSE j \in upper : \A k \in upper : j <= k
         IN  LowerAt(SubSeq(s, 1, i - 1) \o LowerChar(SubSeq(s, i, i))
                       \o SubSeq(s, i + 1, Len(s)),
                     upper \ {i})

\* str.lower()
Lower(s) == LowerAt(s, {i \in 1..Len(s) : SubSeq(s, i, i) \in UpperSet})

\* k in t
IsSubstr(k, t) ==
    \E i \in 0..(Len(t) - Len(k)) : SubSeq(t, i + 1, i + Len(k)) = k

\* t[:n] for n >= 0
Prefix(t, n) == SubSeq(t, 1, Min(n, Len(t)))

\* t.rfind(c) for a one-character c: 0-based index of the last occurrence, -1 if none
RFind(t, c) ==
    LET hits == {i \in 1..Len(t) : SubSeq(t, i, i) = c}
    IN  IF hits = {} THEN -1
        ELSE (CHOOSE i \in hits : \A j \in hits : j <= i) - 1

\* seq[:n], n of either sign
Slice(seq, n) ==
    IF n >= 0 THEN SubSeq(seq, 1, Min(n, Len(seq)))
    ELSE SubSeq(seq, 1, Max(Len(seq) + n, 0))

RECURSIVE Rep(_, _)
Rep(s, n) == IF n <= 0 THEN "" ELSE s \o Rep(s, n - 1)

RECURSIVE JoinFrom(_, _, _)
JoinFrom(sep, seq, i) ==
    IF i > Len(seq) THEN ""
    ELSE IF i = Len(seq) THEN seq[i]
    ELSE seq[i] \o sep \o JoinFrom(sep, seq, i + 1)

\* sep.join(seq)
Join(sep, seq) == JoinFrom(sep, seq, 1)

\* d.get(k, default) on a record
Get(d, k, default) == IF k \in DOMAIN d THEN d[k] ELSE default

\* the dict d without the key k
Without(d, k) == [f \in DOMAIN d \ {k} |-> d[f]]

(***************************************************************************)
(* SituationKnowledgeBase                                                  *)
(***************************************************************************)
SituationOrder ==
    <<"perdida_familiar", "ruptura_amorosa", "ansiedad", "soledad",
      "estres_laboral", "duelo">>

SITUATION_CONFIG ==
    [t \in Range(SituationOrder) |->
       CASE t = "perdida_familiar" ->
              [beneficial |-> <<"baja_estimulacion", "naturaleza", "social_suave", "mindfulness", "agua">>,
               avoid |-> <<"alta_estimulacion", "competitivo", "fiesta">>,
               keywords |-> <<"descanso", "tranquilo", "paz", "naturaleza", "spa", "estadía", "caminata">>,
               description |-> "La pérdida requiere espacios de calma para procesar el duelo"]
         [] t = "ruptura_amorosa" ->
              [beneficial |-> <<"ejercicio", "social", "expresion_artistica", "naturaleza", "agua">>,
               avoid |-> <<"romantico", "parejas">>,
               keywords |-> <<"deporte", "grupo", "social", "arte", "natación", "gimnasio", "taller">>,
               description |-> "El movimiento físico y las conexiones sociales ayudan a procesar"]
         [] t = "ansiedad" ->
              [beneficial |-> <<"mindfulness", "ejercicio_suave", "naturaleza", "agua", "baja_estimulacion">>,
               avoid |-> <<"alta_estimulacion", "multitudes", "competitivo">>,
               keywords |-> <<"yoga", "meditación", "natación", "spa", "relajación", "tranquilo">>,
               description |-> "Actividades que calman el sistema nervioso son clave"]
         [] t = "soledad" ->
              [beneficial |-> <<"social", "grupal", "club", "voluntariado">>,
               avoid |-> <<"individual", "solitario">>,
               keywords |-> <<"grupo", "club", "taller", "clase", "social", "comunidad">>,
               description |-> "Construir conexiones a través de intereses compartidos"]
         [] t = "estres_laboral" ->
              [beneficial |-> <<"desconexion", "naturaleza", "ejercicio", "spa", "agua">>,
               avoid |-> <<"alta_concentracion", "competitivo">>,
               keywords |-> <<"escapada", "descanso", "spa", "naturaleza", "deporte", "vacaciones", "parque">>,
               description |-> "Desconexión activa del entorno laboral"]
         [] t = "duelo" ->
              [beneficial |-> <<"baja_estimulacion", "naturaleza", "expresion_artistica", "social_suave">>,
               avoid |-> <<"alta_estimulacion", "fiestas">>,
               keywords |-> <<"tranquilo", "naturaleza", "arte", "caminata", "grupo de apoyo">>,
               description |-> "Espacio para procesar y honrar la pérdida"]]

EmptyConfig ==
    [beneficial |-> <<>>, avoid |-> <<>>, keywords |-> <<>>, description |-> ""]

\* get_config falling back to a configured category instead of the empty record
get_config_default_duelo(situation_type) ==
    IF situation_type \in DOMAIN SITUATION_CONFIG
    THEN SITUATION_CONFIG[situation_type]
    ELSE SITUATION_CONFIG["duelo"]

\* SituationKnowledgeBase.get_config
get_config(situation_type) ==
    IF situation_type \in DOMAIN SITUATION_CONFIG
    THEN SITUATION_CONFIG[situation_type]
    ELSE EmptyConfig

(***************************************************************************)
(* ProductTagger                                                           *)
(***************************************************************************)
ActivityOrder ==
    <<"naturaleza", "agua", "ejercicio", "social", "mindfulness",
      "baja_estimulacion", "expresion_artistica", "turismo">>

ACTIVITY_KEYWORDS ==
    [a \in Range(ActivityOrder) |->
       CASE a = "naturaleza" -> <<"ecológic", "natural", "caminata", "senderismo", "lagosol", "parque", "jardín">>
         [] a = "agua" -> <<"acuático", "piscina", "natación", "spa", "agua", "lagosol">>
         [] a = "ejercicio" -> <<"deporte", "gimnasio", "natación", "fitness", "ejercicio">>
         [] a = "social" -> <<"grupo", "club", "taller", "clase", "comunidad">>
         [] a = "mindfulness" -> <<"yoga", "meditación", "bienestar", "relajación", "mindfulness">>
         [] a = "baja_estimulacion" -> <<"descanso", "tranquilo", "estadía", "spa", "relax", "pasadía">>
         [] a = "expresion_artistica" -> <<"arte", "pintura", "música", "teatro", "taller creativo", "manualidades">>
         [] a = "turismo" -> <<"pasadía", "entrada", "tour", "viaje", "escapada">>]

\* _infer_situations taking an entry without traits to suit every category
infer_situations_general(activity_types) ==
    SelectSeq(SituationOrder,
              LAMBDA sit_type :
                \/ activity_types = <<>>
                \/ \E i \in 1..Len(activity_types) :
                      activity_types[i] \in Range(SITUATION_CONFIG[sit_type].beneficial))

\* ProductTagger._infer_situations
infer_situations(activity_types) ==
    SelectSeq(SituationOrder,
              LAMBDA sit_type :
                \E i \in 1..Len(activity_types) :
                    activity_types[i] \in Range(SITUATION_CONFIG[sit_type].beneficial))

\* the text without the description
TagText_no_description(product) ==
    Lower(product.nombre \o " " \o product.categoria_principal \o " "
          \o product.subcategoria \o " ")

\* text of tag_product: the f-string, lower-cased
TagText(product) ==
    Lower(product.nombre \o " " \o product.categoria_principal \o " "
          \o product.subcategoria \o " "
          \o (IF product.descripcion = None THEN "" ELSE product.descripcion))

\* the local list activity_types of tag_product
FoundTypes(product) ==
    LET text == TagText(product)
    IN  SelectSeq(ActivityOrder,
                  LAMBDA activity_type :
                    \E i \in 1..Len(ACTIVITY_KEYWORDS[activity_type]) :
                        IsSubstr(Lower(ACTIVITY_KEYWORDS[activity_type][i]), text))

\* tag_product extending the entry's list instead of replacing it
tag_product_extend(product) ==
    LET activity_types == product.activity_types \o FoundTypes(product)
    IN  [product EXCEPT
           !.activity_types = IF activity_types # <<>> THEN activity_types ELSE <<"general">>,
           !.situation_tags = infer_situations(activity_types)]

\* ProductTagger.tag_product
tag_product(product) ==
    LET activity_types == FoundTypes(product)
    IN  [product EXCEPT
           !.activity_types = IF activity_types # <<>> THEN activity_types ELSE <<"general">>,
           !.situation_tags = infer_situations(activity_types)]


(***************************************************************************)
(* RecommendationEngine                                                    *)
(***************************************************************************)
\* dataclass Product built by _load_products from one raw JSON record
Product(raw) ==
    [id |-> Get(raw, "id", ""),
     nombre |-> Get(raw, "nombre", ""),
     categoria_principal |-> Get(raw, "categoria_principal", ""),
     subcategoria |-> Get(raw, "subcategoria", ""),
     precio_desde |-> IF "precio" \in DOMAIN raw /\ raw.precio.isdict
                      THEN Get(raw.precio, "valor_numerico", 0)
                      ELSE 0,
     url |-> Get(raw, "url", ""),
     imagen_url |-> Get(raw, "imagen_url", ""),
     promocion |-> Get(raw, "promocion", FALSE),
     descripcion |-> Get(raw, "descripcion", None),
     activity_types |-> <<>>,
     situation_tags |-> <<>>]

\* the loop of _load_products from raw record i on, seen_ids and self.products so far
RECURSIVE LoadFrom(_, _, _, _)
LoadFrom(raw_products, i, seen_ids, loaded) ==
    IF i > Len(raw_products) THEN loaded
    ELSE LET raw == raw_products[i]
             rid == Get(raw, "id", None)
         IN  IF rid \in seen_ids
             THEN LoadFrom(raw_products, i + 1, seen_ids, loaded)
             ELSE LoadFrom(raw_products, i + 1, seen_ids \cup {rid},
                           Append(loaded, tag_product(Product(raw))))

\* RecommendationEngine.__init__ / _load_products on a fresh engine
load_products(raw_products) == LoadFrom(raw_products, 1, {}, <<>>)

\* matching_types of recommend
MatchingTypes(product, beneficial) ==
    SelectSeq(product.activity_types, LAMBDA at : at \in Range(beneficial))

\* the avoid test counting the fallback trait as one to avoid
HasAvoid_general(product, avoid) ==
    \E i \in 1..Len(product.activity_types) :
        product.activity_types[i] \in Range(avoid) \cup {"general"}

\* the avoid test of recommend
HasAvoid(product, avoid) ==
    \E i \in 1..Len(product.activity_types) :
        product.activity_types[i] \in Range(avoid)

\* matching_kw of recommend
MatchingKw(product, keywords) ==
    LET nombre_lower == Lower(product.nombre)
    IN  SelectSeq(keywords, LAMBDA kw : IsSubstr(Lower(kw), nombre_lower))

\* the hobby test of recommend
HobbyMatches(hobby, product) ==
    LET hobby_lower == Lower(hobby)
    IN  \/ IsSubstr(hobby_lower, Lower(product.nombre))
        \/ IsSubstr(hobby_lower, Lower(product.subcategoria))

\* the hobbies that pass the hobby test, in profile order
MatchingHobbies(hobbies, product) ==
    SelectSeq(hobbies, LAMBDA hobby : HobbyMatches(hobby, product))

\* the hobby bonus given once, whatever the number of matching hobbies
HobbyBonus_once(hobbies, product) ==
    IF MatchingHobbies(hobbies, product) # <<>> THEN 10 ELSE 0

\* +10 per matching hobby
HobbyBonus(hobbies, product) == 10 * Len(MatchingHobbies(hobbies, product))

\* +5 when promotional
PromoBonus(product) == IF product.promocion THEN 5 ELSE 0

\* the keyword bonus given once, whatever the number of matching keywords
KeywordBonus_once(product, keywords) ==
    IF MatchingKw(product, keywords) # <<>> THEN 15 ELSE 0

\* +15 per matching keyword
KeywordBonus(product, keywords) == 15 * Len(MatchingKw(product, keywords))

\* the penalty taken once per trait to avoid
AvoidPenalty_per_trait(product, avoid) ==
    50 * Len(SelectSeq(product.activity_types, LAMBDA at : at \in Range(avoid)))

\* score -= 50 when a trait is to be avoided, however many are
AvoidPenalty(product, avoid) == IF HasAvoid(product, avoid) THEN 50 ELSE 0

\* the body of the loop of recommend for one product, config being
\* get_config(situation.type): the entry's score and reasons
ScoreWith(product, prof, config) ==
    LET matching_types == MatchingTypes(product, config.beneficial)
        matching_kw == MatchingKw(product, config.keywords)
        matching_hobbies == MatchingHobbies(prof.hobbies, product)
        score == 30 * Len(matching_types)
                 - AvoidPenalty(product, config.avoid)
                 + KeywordBonus(product, config.keywords)
                 + PromoBonus(product)
                 + HobbyBonus(prof.hobbies, product)
        reasons ==
            (IF matching_types # <<>>
             THEN <<"Actividad de tipo '" \o matching_types[1] \o "' ayuda en tu situación">>
             ELSE <<>>)
            \o (IF matching_kw # <<>>
                THEN <<"Incluye: " \o Join(", ", Slice(matching_kw, 2))>>
                ELSE <<>>)
            \o (IF product.promocion THEN <<"En promoción">> ELSE <<>>)
            \o [i \in 1..Len(matching_hobbies) |->
                  "Conecta con tu interés en " \o matching_hobbies[i]]
    IN  [product |-> product, score |-> score, reasons |-> reasons]

\* the loop body for the situation's config
ScoreProduct(product, prof, sit) == ScoreWith(product, prof, get_config(sit.type))

\* the filter keeping zero scores
Keep_zero(rec) == rec.score >= 0

\* if score > 0: recommendations.append(...)
Keep(rec) == rec.score > 0

\* an insertion that puts the new entry before its equals: ties come out reversed
RECURSIVE InsertBeforeEquals(_, _)
InsertBeforeEquals(sorted, rec) ==
    IF sorted = <<>> THEN <<rec>>
    ELSE IF Head(sorted).score > rec.score
         THEN <<Head(sorted)>> \o InsertBeforeEquals(Tail(sorted), rec)
         ELSE <<rec>> \o sorted

\* where list.sort(key=score, reverse=True) puts one more entry: after the
\* entries that score at least as much (the sort is stable)
RECURSIVE InsertByScore(_, _)
InsertByScore(sorted, rec) ==
    IF sorted = <<>> THEN <<rec>>
    ELSE IF Head(sorted).score >= rec.score
         THEN <<Head(sorted)>> \o InsertByScore(Tail(sorted), rec)
         ELSE <<rec>> \o sorted

RECURSIVE SortFrom(_, _, _)
SortFrom(seq, i, sorted) ==
    IF i > Len(seq) THEN sorted
    ELSE SortFrom(seq, i + 1, InsertByScore(sorted, seq[i]))

\* recommendations.sort(key=lambda r: r.score, reverse=True)
SortByScore(seq) == SortFrom(seq, 1, <<>>)

\* recommend from the config on: score, filter, sort, cut
RecommendWith(prods, prof, config, n) ==
    IF prods = <<>> THEN <<>>
    ELSE Slice(SortByScore(SelectSeq([i \in 1..Len(prods) |-> ScoreWith(prods[i], prof, config)],
                                     Keep)),
               n)

\* recommend reading the category out of the free text of the situation
recommend_by_context(prods, prof, sit, n) ==
    RecommendWith(prods, prof,
                  get_config(IF IsSubstr("padres", Lower(sit.context))
                             THEN "perdida_familiar" ELSE sit.type), n)

\* RecommendationEngine.recommend
recommend(prods, prof, sit, n) ==
    RecommendWith(prods, prof, get_config(sit.type), n)

\* recommend sorting the catalog itself: the returned entries come first
ProductsAfterRecommend_sorted(prods, rs) ==
    [k \in 1..Len(rs) |-> rs[k].product]
    \o SelectSeq(prods, LAMBDA p : \A k \in 1..Len(rs) : rs[k].product # p)

\* self.products after a call of recommend that returned rs: the call appends
\* to, sorts and cuts its own list, and only reads the catalog
ProductsAfterRecommend(prods, rs) == prods

(***************************************************************************)
(* EmpathicMessageGenerator                                                *)
(***************************************************************************)
CONFRONTATION ==
    [t \in Range(SituationOrder) |->
       CASE t = "perdida_familiar" ->
              ("padres" :> "enfrentarte a la pérdida de tus padres"
               @@ "pareja" :> "atravesar la pérdida de tu compañero/a de vida"
               @@ "hijo" :> "sobrellevar la pérdida más difícil que existe"
               @@ "hermano" :> "procesar la partida de tu hermano/a"
               @@ "general" :> "enfrentar la partida de alguien que amabas")
         [] t = "ruptura_amorosa" ->
              ("reciente" :> "procesar el fin de una relación importante"
               @@ "larga" :> "cerrar un capítulo significativo de tu vida"
               @@ "general" :> "sanar después de una ruptura")
         [] t = "ansiedad" ->
              ("laboral" :> "manejar la presión que el trabajo pone sobre ti"
               @@ "social" :> "navegar el peso de las interacciones sociales"
               @@ "general" :> "lidiar con pensamientos que no te dan tregua")
         [] t = "soledad" ->
              ("mudanza" :> "construir conexiones en un lugar nuevo"
               @@ "aislamiento" :> "romper el ciclo de aislamiento"
               @@ "general" :> "encontrar tu lugar entre otros")
         [] t = "estres_laboral" ->
              ("burnout" :> "recuperarte del agotamiento profesional"
               @@ "presion" :> "sostener el peso de múltiples responsabilidades"
               @@ "general" :> "encontrar equilibrio entre trabajo y vida")
         [] t = "duelo" ->
              ("reciente" :> "atravesar los primeros momentos del duelo"
               @@ "prolongado" :> "continuar tu camino mientras honras la memoria"
               @@ "general" :> "procesar una pérdida profunda")]

CALMING ==
    [t \in Range(SituationOrder) |->
       CASE t = "perdida_familiar" ->
              <<"Este dolor es parte de haber amado profundamente.",
                "No hay tiempo correcto para sanar, solo el tuyo.",
                "Cada día que enfrentas es un acto de valentía.">>
         [] t = "ruptura_amorosa" ->
              <<"Lo que sientes ahora no es permanente.",
                "El vacío actual dejará espacio para algo nuevo.",
                "Mereces tiempo para reconstruirte.">>
         [] t = "ansiedad" ->
              <<"La calma es una habilidad que se entrena.",
                "Tu mente trabaja de más tratando de protegerte.",
                "Pequeños momentos de paz se acumulan.">>
         [] t = "soledad" ->
              <<"Buscar conexión es señal de fortaleza.",
                "Las mejores amistades empiezan con un primer paso.",
                "Tu presencia tiene valor aunque no lo sientas.">>
         [] t = "estres_laboral" ->
              <<"Tu valor no se mide en horas trabajadas.",
                "Descansar es parte del trabajo bien hecho.",
                "Nadie funciona bien con el tanque vacío.">>
         [] t = "duelo" ->
              <<"El duelo no es algo que superar, sino integrar.",
                "Honrar lo que perdiste también es vivir.",
                "No tienes que estar bien, solo tienes que seguir.">>]

ACTIVITY_BENEFITS ==
    ("naturaleza" :> "la naturaleza tiene un efecto restaurador comprobado"
     @@ "agua" :> "el agua ayuda a liberar tensiones acumuladas"
     @@ "mindfulness" :> "calmar la mente es el primer paso hacia la paz interior"
     @@ "ejercicio" :> "el movimiento físico libera tensión y mejora el ánimo"
     @@ "social" :> "conectar con otros nos recuerda que no estamos solos"
     @@ "baja_estimulacion" :> "a veces el mejor paso es simplemente pausar"
     @@ "expresion_artistica" :> "expresar lo que las palabras no alcanzan"
     @@ "turismo" :> "cambiar de ambiente ayuda a ganar perspectiva")

\* the confrontation phrase with the generic phrase for every unknown subtype
Confrontation_generic(sit) ==
    IF sit.type \notin DOMAIN CONFRONTATION THEN "enfrentar este momento"
    ELSE LET sit_phrases == CONFRONTATION[sit.type]
         IN  IF sit.subtype \in DOMAIN sit_phrases THEN sit_phrases[sit.subtype]
             ELSE "enfrentar este momento"

\* the confrontation phrase of generate
Confrontation(sit) ==
    IF sit.type \notin DOMAIN CONFRONTATION THEN "enfrentar este momento"
    ELSE LET sit_phrases == CONFRONTATION[sit.type]
         IN  IF sit.subtype \in DOMAIN sit_phrases THEN sit_phrases[sit.subtype]
             ELSE IF "general" \in DOMAIN sit_phrases THEN sit_phrases["general"]
             ELSE "enfrentar este momento"

\* calm_options falling back on the pool of "duelo" for an unknown category
CalmOptions_duelo(situation_type) ==
    IF situation_type \in DOMAIN CALMING THEN CALMING[situation_type]
    ELSE CALMING["duelo"]

\* calm_options of generate
CalmOptions(situation_type) ==
    IF situation_type \in DOMAIN CALMING THEN CALMING[situation_type]
    ELSE <<"Lo que sientes es válido.">>

\* EmpathicMessageGenerator._connect_hobby
connect_hobby(hobbies, product) ==
    LET product_text == Lower(product.nombre \o " " \o product.subcategoria)
        hits == SelectSeq(hobbies, LAMBDA hobby : IsSubstr(Lower(hobby), product_text))
    IN  IF hits # <<>>
        THEN "aprovechando tu gusto por " \o Lower(hits[1])
             \o ", te recomendamos " \o product.nombre
        ELSE IF hobbies # <<>>
        THEN "combinando tu interés en " \o Lower(hobbies[1])
             \o " con algo nuevo, te sugerimos " \o product.nombre
        ELSE "te recomendamos " \o product.nombre

\* _get_benefit looking at the first trait only
get_benefit_first_trait(activity_types) ==
    IF activity_types # <<>> /\ activity_types[1] \in DOMAIN ACTIVITY_BENEFITS
    THEN ACTIVITY_BENEFITS[activity_types[1]]
    ELSE ""

\* EmpathicMessageGenerator._get_benefit
get_benefit(activity_types) ==
    LET known == SelectSeq(activity_types, LAMBDA at : at \in DOMAIN ACTIVITY_BENEFITS)
    IN  IF known # <<>> THEN ACTIVITY_BENEFITS[known[1]] ELSE ""

\* the return of generate for an empty list of recommendations
Fallback(prof) == prof.name \o ", estamos buscando las mejores opciones para ti."

\* the last step of generate: cut a message of more than 500 characters
Truncate(message) ==
    IF Len(message) > 500
    THEN LET last_period == RFind(Prefix(message, 497), ".")
         IN  IF last_period > 300
             THEN Prefix(message, last_period + 1)
             ELSE Prefix(message, 497) \o "..."
    ELSE message

\* the message of generate before the goal clause
Assemble(prof, sit, top_rec, choice) ==
    LET benefit == get_benefit(top_rec.product.activity_types)
        message == prof.name \o ", sé que hoy te toca " \o Confrontation(sit) \o ". "
                   \o CalmOptions(sit.type)[choice] \o " Por eso, "
                   \o connect_hobby(prof.hobbies, top_rec.product)
    IN  IF benefit # "" THEN message \o " " \o EmDash \o " " \o benefit \o "." ELSE message

\* the goal clause appended whenever the message is under the 500 limit
WithGoal_under_limit(prof, message) ==
    IF prof.goals # <<>> /\ Len(message) < 500
    THEN message \o " Un paso hacia " \o Lower(prof.goals[1]) \o "."
    ELSE message

\* the goal clause of generate
WithGoal(prof, message) ==
    IF prof.goals # <<>> /\ Len(message) < 420
    THEN message \o " Un paso hacia " \o Lower(prof.goals[1]) \o "."
    ELSE message

\* EmpathicMessageGenerator.generate; choice is the index random.choice draws
generate(prof, sit, recommendations, choice) ==
    IF recommendations = <<>> THEN Fallback(prof)
    ELSE Truncate(WithGoal(prof, Assemble(prof, sit, recommendations[1], choice)))

\* what random.choice can draw in generate (nothing is drawn on the fallback path)
Choices(sit, recommendations) ==
    IF recommendations = <<>> THEN {0} ELSE 1..Len(CalmOptions(sit.type))

(***************************************************************************)
(* BeHumanRecommender                                                      *)
(***************************************************************************)
\* one element of "recommendations" in the dict BeHumanRecommender.recommend returns
RecDict(r) ==
    [product |-> [id |-> r.product.id,
                  nombre |-> r.product.nombre,
                  categoria |-> r.product.categoria_principal,
                  subcategoria |-> r.product.subcategoria,
                  precio_desde |-> r.product.precio_desde,
                  url |-> r.product.url,
                  imagen_url |-> r.product.imagen_url,
                  promocion |-> r.product.promocion,
                  activity_types |-> r.product.activity_types],
     score |-> r.score,
     reasons |-> r.reasons]

\* the returned dict with the hobbies of the context lower-cased
Response_lowered(prof, sit, rs, message) ==
    [message |-> message,
     message_length |-> Len(message),
     recommendations |-> [i \in 1..Len(rs) |-> RecDict(rs[i])],
     context |-> [profile_name |-> prof.name,
                  profile_age |-> prof.age,
                  hobbies |-> [i \in 1..Len(prof.hobbies) |-> Lower(prof.hobbies[i])],
                  goals |-> prof.goals,
                  situation_type |-> sit.type,
                  situation_subtype |-> sit.subtype,
                  situation_context |-> sit.context]]

\* the dict BeHumanRecommender.recommend returns
Response(prof, sit, rs, message) ==
    [message |-> message,
     message_length |-> Len(message),
     recommendations |-> [i \in 1..Len(rs) |-> RecDict(rs[i])],
     context |-> [profile_name |-> prof.name,
                  profile_age |-> prof.age,
                  hobbies |-> prof.hobbies,
                  goals |-> prof.goals,
                  situation_type |-> sit.type,
                  situation_subtype |-> sit.subtype,
                  situation_context |-> sit.context]]

\* BeHumanRecommender.recommend; choice is the index random.choice draws
behuman_recommend(prods, prof, sit, n, choice) ==
    LET rs == recommend(prods, prof, sit, n)
    IN  Response(prof, sit, rs, generate(prof, sit, rs, choice))

(***************************************************************************)
(* HRWorkflow of src/src/recommender/hr_workflow.py                        *)
(***************************************************************************)
\* min(30.0, max(3.0, score / 5.0)) rounded to one decimal; every score is a
\* multiple of 5, so the quotient is a whole number
Uplift(score) == Min(30, Max(3, score \div 5))

\* the card create_hr_cards builds from one element of "recommendations"
Card(rec) ==
    [product |-> rec.product,
     title |-> Get(rec.product, "nombre", None),
     subtitle |-> Get(rec.product, "categoria", "") \o " · "
                  \o Get(rec.product, "subcategoria", ""),
     explanation |-> "Esta opción ayuda porque "
                     \o (IF rec.reasons # <<>> THEN rec.reasons[1]
                         ELSE "encaja con la situación")
                     \o "; favorece bienestar y puede reducir ausentismo.",
     estimated_productivity_uplift_percent |-> Uplift(rec.score),
     score |-> rec.score]

\* the loop of create_hr_cards keeping every element, whatever its product id
RECURSIVE CardsFrom_any(_, _, _, _)
CardsFrom_any(rs, i, used, built) ==
    IF i > Len(rs) \/ Len(built) >= 2 THEN built
    ELSE CardsFrom_any(rs, i + 1, used, Append(built, Card(rs[i])))

\* the loop of create_hr_cards from element i on, used and cards so far
RECURSIVE CardsFrom(_, _, _, _)
CardsFrom(rs, i, used, built) ==
    IF i > Len(rs) \/ Len(built) >= 2 THEN built
    ELSE LET pid == Get(rs[i].product, "id", None)
         IN  IF pid \in used
             THEN CardsFrom(rs, i + 1, used, built)
             ELSE CardsFrom(rs, i + 1, used \cup {pid}, Append(built, Card(rs[i])))

\* HRWorkflow.create_hr_cards
create_hr_cards(prods, prof, sit, choice) ==
    LET result == behuman_recommend(prods, prof, sit, 4, choice)
    IN  CardsFrom(Get(result, "recommendations", <<>>), 1, {}, <<>>)

\* hr_accept putting the profile's identity token in the notification
hr_accept_identified(prods, prof, sit, accepted_card, choice) ==
    LET result == behuman_recommend(prods, prof, sit, 3, choice)
        product_info == Get(accepted_card, "product", <<>>)
    IN  [to_employee |-> TRUE,
         anonymous |-> TRUE,
         user_id |-> prof.user_id,
         message |-> "Hemos recibido una notificación anónima sobre tu situación. "
                     \o result.message
                     \o " RRHH ha aprobado una intervención que podría ayudarte. "
                     \o "Si deseas más detalles, puedes responder a este mensaje "
                     \o "y te conectaremos con el equipo de bienestar.",
         intervention |->
           [title |-> Get(product_info, "nombre", None),
            url |-> Get(product_info, "url", None),
            estimated_productivity_uplift_percent |->
              Get(accepted_card, "estimated_productivity_uplift_percent", None)]]

\* HRWorkflow.hr_accept
hr_accept(prods, prof, sit, accepted_card, choice) ==
    LET result == behuman_recommend(prods, prof, sit, 3, choice)
        product_info == Get(accepted_card, "product", <<>>)
    IN  [to_employee |-> TRUE,
         anonymous |-> TRUE,
         message |-> "Hemos recibido una notificación anónima sobre tu situación. "
                     \o result.message
                     \o " RRHH ha aprobado una intervención que podría ayudarte. "
                     \o "Si deseas más detalles, puedes responder a este mensaje "
                     \o "y te conectaremos con el equipo de bienestar.",
         intervention |->
           [title |-> Get(product_info, "nombre", None),
            url |-> Get(product_info, "url", None),
            estimated_productivity_uplift_percent |->
              Get(accepted_card, "estimated_productivity_uplift_percent", None)]]

(***************************************************************************)
(* Inputs: raw catalog records, profiles, situations, result counts.       *)
(***************************************************************************)
Raw(id, nombre, categoria, subcategoria, valor, promo) ==
    [id |-> id, nombre |-> nombre, categoria_principal |-> categoria,
     subcategoria |-> subcategoria,
     precio |-> [isdict |-> TRUE, valor_numerico |-> valor],
     url |-> "https://www.tiendacompensar.com/" \o id,
     imagen_url |-> "https://www.tiendacompensar.com/img/" \o id,
     promocion |-> promo]

\* the records a productos.json is cut from, in file order
RawPool ==
    <<Raw("p1", "Caminata ecológica", "Turismo", "Caminatas", 45000, FALSE),
      ("descripcion" :> "Clase en grupo al aire libre")
        @@ Raw("p2", "Yoga grupal", "Bienestar", "Yoga", 60000, TRUE),
      Raw("p3", "Natación libre", "Deportes", "Natación", 80000, FALSE),
      Raw("p4", "Natación adultos", "Deportes", "Natación", 90000, FALSE),
      Raw("p5", "Bono regalo", "Otros", "Bonos", 50000, TRUE),
      Raw("p6", "Seguro exequial", "Seguros", "Planes", 20000, FALSE),
      Raw("p7", "Pasadía Lagosol", "Turismo", "Pasadías", 70000, TRUE),
      Raw("p8", "Taller de Arte", "Cultura", "Talleres", 30000, FALSE),
      Raw("p8", "Taller de Arte II", "Cultura", "Talleres", 32000, TRUE),
      Without(Raw("", "Spa sin código", "Bienestar", "Spa", 85000, FALSE), "id"),
      Raw("", "Yoga sin código", "Bienestar", "Yoga", 55000, FALSE),
      Without(Raw("", "Natación sin código", "Deportes", "Natación", 75000, FALSE), "id"),
      Without(Raw("p9", "", "Bienestar", "Yoga", 65000, TRUE), "nombre")>>

\* the catalog files: the runs of at most MaxCatalog consecutive records
RawCatalogs ==
    {SubSeq(RawPool, i, Min(i + k - 1, Len(RawPool))) :
        i \in 1..Len(RawPool), k \in 0..MaxCatalog}

\* Product(..., activity_types=[...]): an entry whose traits are given, not tagged
Entry(id, nombre, categoria, subcategoria, valor, promo, activity_types) ==
    [Product(Raw(id, nombre, categoria, subcategoria, valor, promo))
       EXCEPT !.activity_types = activity_types]

AssignedPool ==
    <<Entry("a1", "Torneo de natación", "Deportes", "Torneos", 40000, TRUE,
            <<"competitivo", "alta_estimulacion">>),
      Entry("a2", "Spa descanso tranquilo", "Bienestar", "Spa", 90000, TRUE,
            <<"alta_estimulacion">>),
      Entry("a3", "Caminata ecológica", "Turismo", "Caminatas", 45000, FALSE,
            <<"naturaleza">>),
      Entry("a4", "Spa de paz, descanso tranquilo", "Bienestar", "Spa", 95000, TRUE,
            <<"competitivo">>),
      Entry("a5", "Noche de fiesta", "Eventos", "Fiestas", 35000, FALSE,
            <<"fiesta", "fiestas">>),
      Entry("a6", "Piscina al atardecer", "Recreación", "Piscinas", 20000, FALSE,
            <<"romantico", "agua", "naturaleza">>)>>

\* the catalogs of given entries: the runs of at most MaxCatalog consecutive ones
AssignedCatalogs ==
    {SubSeq(AssignedPool, i, Min(i + k - 1, Len(AssignedPool))) :
        i \in 1..Len(AssignedPool), k \in 0..MaxCatalog}

UserProfile(user_id, name, age, gender, hobbies, goals) ==
    [user_id |-> user_id, name |-> name, age |-> age, gender |-> gender,
     hobbies |-> hobbies, goals |-> goals]

Profiles ==
    {UserProfile("001", "Ricardo", 59, "masculino",
                 <<"lectura", "jardinería", "caminar">>,
                 <<"fortalecer relaciones personales", "aprovechar el tiempo">>),
     UserProfile("003", "María", 35, "femenino",
                 <<"Yoga", "natación">>, <<"Manejar el estrés">>),
     UserProfile("004", "Ana", 27, "femenino", <<>>, <<>>),
     UserProfile("005", Rep("Juan Carlos ", 40), 41, "masculino", <<>>, <<>>),
     UserProfile("006", Rep("Maria Jose ", 40), 30, "femenino", <<"arte">>, <<>>),
     UserProfile("007", "Luis", 19, "masculino", <<"libre natación", "Natación">>,
                 <<Rep("Dormir mejor y ", 30) \o "descansar">>),
     UserProfile("008", Rep("Ana Lucia ", 26), 52, "femenino", <<>>,
                 <<"Descansar", "Viajar">>)}

Situation(type, subtype, context) ==
    [type |-> type, subtype |-> subtype, context |-> context]

Situations ==
    {Situation("perdida_familiar", "padres", "Acaba de perder a sus padres por enfermedad"),
     Situation("ruptura_amorosa", "reciente", "Ruptura después de 2 años"),
     Situation("ansiedad", "escolar", "Presión constante"),
     Situation("crisis_financiera", "padres", "Perdió sus ahorros")}

TopNs == (0 - NegTopN)..MaxTopN

\* the contents of the products file before and after it is replaced
ReloadFiles == {<<>>, SubSeq(RawPool, 1, 2), SubSeq(RawPool, 2, 3)}

(***************************************************************************)
(* State: the engine's catalog, and the call in progress with what it      *)
(* returned.                                                               *)
(***************************************************************************)
NoProfile == UserProfile("", "", 0, "", <<>>, <<>>)

NoSituation == Situation("", "", "")

NoProduct == Product([id |-> ""])

NoResponse == Response(NoProfile, NoSituation, <<>>, "")

NoCard == Card([product |-> RecDict([product |-> NoProduct, score |-> 0, reasons |-> <<>>]).product,
                score |-> 0, reasons |-> <<>>])

NoNotification == [to_employee |-> FALSE]

Idle ==
    /\ pc = "idle"
    /\ op = "none"
    /\ profile = NoProfile
    /\ situation = NoSituation
    /\ top_n = 0
    /\ recs = <<>>
    /\ scores = <<>>
    /\ calming = 0
    /\ msg = ""
    /\ response = NoResponse
    /\ tagged = NoProduct
    /\ cards = <<>>
    /\ accepted = NoCard
    /\ notification = NoNotification
    /\ outcome = "none"

\* no call of _load_products is running; the last one read the products file
NotLoading ==
    /\ reloads = 0
    /\ load_i = 0
    /\ load_seen = {}
    /\ loaded_file = products_file

\* after RecommendationEngine.__init__ on one of the catalog files
Init ==
    /\ products_file \in RawCatalogs
    /\ products = load_products(products_file)
    /\ NotLoading
    /\ Idle

\* an engine whose products list holds entries with given traits
InitAssigned ==
    /\ products_file = <<>>
    /\ products \in AssignedCatalogs
    /\ NotLoading
    /\ Idle

\* the scores the loop of recommend computes, one per catalog entry
LoopScores(prods, prof, sit) ==
    [i \in 1..Len(prods) |-> ScoreProduct(prods[i], prof, sit).score]

\* a call of RecommendationEngine.recommend
Recommend ==
    /\ pc = "idle"
    /\ \E prof \in Profiles, sit \in Situations, n \in TopNs :
          /\ profile' = prof
          /\ situation' = sit
          /\ top_n' = n
          /\ recs' = recommend(products, prof, sit, n)
          /\ scores' = LoopScores(products, prof, sit)
    /\ pc' = "done"
    /\ op' = "recommend"
    /\ outcome' = "returned"
    /\ products' = ProductsAfterRecommend(products, recs')
    /\ UNCHANGED <<reloads, load_i, load_seen, loaded_file>>
    /\ UNCHANGED <<products_file, calming, msg, response, tagged,
                   cards, accepted, notification>>

\* a call of EmpathicMessageGenerator.generate on a list recommend returned
Generate ==
    /\ pc = "idle"
    /\ \E sit \in Situations :
        \E rs \in {recommend(products, q, sit, n) : q \in Profiles, n \in TopNs} :
          \E prof \in Profiles, choice \in Choices(sit, rs) :
            /\ profile' = prof
            /\ situation' = sit
            /\ recs' = rs
            /\ calming' = choice
            /\ msg' = generate(prof, sit, rs, choice)
    /\ pc' = "done"
    /\ op' = "generate"
    /\ outcome' = "returned"
    /\ UNCHANGED <<reloads, load_i, load_seen, loaded_file>>
    /\ UNCHANGED <<products_file, products, top_n, scores, response, tagged,
                   cards, accepted, notification>>

\* a call of BeHumanRecommender.recommend
BeHumanRecommend ==
    /\ pc = "idle"
    /\ \E prof \in Profiles, sit \in Situations, n \in TopNs :
        \E rs \in {recommend(products, prof, sit, n)} :
          \E choice \in Choices(sit, rs) :
            \E message \in {generate(prof, sit, rs, choice)} :
              /\ profile' = prof
              /\ situation' = sit
              /\ top_n' = n
              /\ recs' = rs
              /\ scores' = LoopScores(products, prof, sit)
              /\ calming' = choice
              /\ msg' = message
              /\ response' = Response(prof, sit, rs, message)
    /\ pc' = "done"
    /\ op' = "orchestrate"
    /\ outcome' = "returned"
    /\ products' = ProductsAfterRecommend(products, recs')
    /\ UNCHANGED <<reloads, load_i, load_seen, loaded_file>>
    /\ UNCHANGED <<products_file, tagged, cards, accepted, notification>>

\* a call of ProductTagger.tag_product on a fresh Product
TagProduct ==
    /\ pc = "idle"
    /\ \E i \in 1..Len(RawPool) : tagged' = tag_product(Product(RawPool[i]))
    /\ pc' = "done"
    /\ op' = "tag_product"
    /\ outcome' = "returned"
    /\ UNCHANGED <<reloads, load_i, load_seen, loaded_file>>
    /\ UNCHANGED <<products_file, products, profile, situation, top_n, recs,
                   scores, calming, msg, response, cards, accepted, notification>>

\* a call of ProductTagger.tag_product on an entry of the catalog: the entry
\* is tagged in place and returned
TagEntry ==
    /\ pc = "idle"
    /\ \E i \in 1..Len(products) :
          /\ tagged' = tag_product(products[i])
          /\ products' = [products EXCEPT ![i] = tag_product(products[i])]
    /\ pc' = "done"
    /\ op' = "tag_product"
    /\ outcome' = "returned"
    /\ UNCHANGED <<reloads, load_i, load_seen, loaded_file>>
    /\ UNCHANGED <<products_file, profile, situation, top_n, recs, scores, calming,
                   msg, response, cards, accepted, notification>>

\* a call of HRWorkflow.create_hr_cards
CreateHrCards ==
    /\ pc = "idle"
    /\ \E prof \in Profiles, sit \in Situations :
        \E rs \in {recommend(products, prof, sit, 4)} :
          \E choice \in Choices(sit, rs) :
              /\ profile' = prof
              /\ situation' = sit
              /\ top_n' = 4
              /\ recs' = rs
              /\ calming' = choice
              /\ cards' = create_hr_cards(products, prof, sit, choice)
    /\ pc' = "done"
    /\ op' = "create_hr_cards"
    /\ outcome' = "returned"
    /\ products' = ProductsAfterRecommend(products, recs')
    /\ UNCHANGED <<reloads, load_i, load_seen, loaded_file>>
    /\ UNCHANGED <<products_file, scores, msg, response, tagged,
                   accepted, notification>>

\* a call of HRWorkflow.hr_accept with one of the cards create_hr_cards
\* returned for the profile and the situation
HrAccept ==
    /\ pc = "idle"
    /\ \E prof \in Profiles, sit \in Situations :
        \E rs \in {recommend(products, prof, sit, 3)} :
          \E choice \in Choices(sit, rs) :
              \E card \in Range(create_hr_cards(products, prof, sit, choice)) :
                /\ profile' = prof
                /\ situation' = sit
                /\ top_n' = 3
                /\ recs' = rs
                /\ calming' = choice
                /\ accepted' = card
                /\ notification' = hr_accept(products, prof, sit, card, choice)
    /\ pc' = "done"
    /\ op' = "hr_accept"
    /\ outcome' = "returned"
    /\ products' = ProductsAfterRecommend(products, recs')
    /\ UNCHANGED <<reloads, load_i, load_seen, loaded_file>>
    /\ UNCHANGED <<products_file, scores, msg, response, tagged, cards>>

\* _load_products called again on the engine after the products file was
\* replaced: the file is read and seen_ids starts empty; self.products is
\* left as it is
LoadBegin ==
    /\ pc = "idle"
    /\ load_i = 0
    /\ reloads < MaxReloads
    /\ \E file \in ReloadFiles : products_file' = file
    /\ reloads' = reloads + 1
    /\ load_i' = 1
    /\ load_seen' = {}
    /\ UNCHANGED <<products, loaded_file, pc, op, profile, situation, top_n, recs,
                   scores, calming, msg, response, tagged, cards, accepted,
                   notification, outcome>>

\* one iteration of the loop of _load_products: a record whose id was seen
\* is skipped, any other is built, tagged and appended to self.products
LoadStep ==
    /\ pc = "idle"
    /\ load_i \in 1..Len(products_file)
    /\ LET raw == products_file[load_i]
       IN  IF Get(raw, "id", None) \in load_seen
           THEN UNCHANGED <<products, load_seen>>
           ELSE /\ load_seen' = load_seen \cup {Get(raw, "id", None)}
                /\ products' = Append(products, tag_product(Product(raw)))
    /\ load_i' = load_i + 1
    /\ UNCHANGED <<products_file, loaded_file, reloads, pc, op, profile, situation,
                   top_n, recs, scores, calming, msg, response, tagged, cards,
                   accepted, notification, outcome>>

\* the loop of _load_products is over and the call returns
LoadEnd ==
    /\ pc = "idle"
    /\ load_i = Len(products_file) + 1
    /\ load_i' = 0
    /\ load_seen' = {}
    /\ loaded_file' = products_file
    /\ UNCHANGED <<products_file, products, reloads, pc, op, profile, situation,
                   top_n, recs, scores, calming, msg, response, tagged, cards,
                   accepted, notification, outcome>>

\* the caller takes the result; the engine is ready for the next call
Return ==
    /\ pc = "done"
    /\ pc' = "idle"
    /\ op' = "none"
    /\ profile' = NoProfile
    /\ situation' = NoSituation
    /\ top_n' = 0
    /\ recs' = <<>>
    /\ scores' = <<>>
    /\ calming' = 0
    /\ msg' = ""
    /\ response' = NoResponse
    /\ tagged' = NoProduct
    /\ cards' = <<>>
    /\ accepted' = NoCard
    /\ notification' = NoNotification
    /\ outcome' = "none"
    /\ UNCHANGED <<reloads, load_i, load_seen, loaded_file>>
    /\ UNCHANGED <<products_file, products>>

Next ==
    \/ Recommend
    \/ Generate
    \/ BeHumanRecommend
    \/ TagProduct
    \/ TagEntry
    \/ CreateHrCards
    \/ HrAccept
    \/ Return

Spec == Init /\ [][Next]_vars

\* the calls on an engine whose entries were given directly and stay as
\* given; the HR workflow builds its own engine from the products file
NextAssigned ==
    \/ Recommend
    \/ Generate
    \/ BeHumanRecommend
    \/ TagProduct
    \/ Return

SpecAssigned == InitAssigned /\ [][NextAssigned]_vars

\* an engine built on one of the reload files, the calls of recommend on it,
\* and a second thread calling _load_products again between or during them
InitReload ==
    /\ products_file \in ReloadFiles
    /\ products = load_products(products_file)
    /\ NotLoading
    /\ Idle

NextReload ==
    \/ LoadBegin
    \/ LoadStep
    \/ LoadEnd
    \/ Recommend
    \/ Return

SpecReload == InitReload /\ [][NextReload]_vars

(***************************************************************************)
(* Properties.                                                             *)
(***************************************************************************)
\* a call of recommend, direct or through the orchestrator, has returned
RecommendDone == pc = "done" /\ op \in {"recommend", "orchestrate"}

\* a call of generate, direct or through the orchestrator, has returned
GenerateDone == pc = "done" /\ op \in {"generate", "orchestrate"}

\* the entry at catalog position i is among the returned recommendations
Returned(i) == \E k \in 1..Len(recs) : recs[k].product = products[i]

\* the catalog position of a returned entry
Position(p) == CHOOSE i \in 1..Len(products) : products[i] = p

\* C1: whatever the profile, the situation and the list of recommendations,
\* the message generate returns has at most 500 characters.
C1_MessageAtMost500 == GenerateDone => Len(msg) <= 500

\* C2: on an empty list of recommendations generate returns the fixed
\* fallback sentence, which holds the profile's name, depends on nothing else
\* and has at most 500 characters.
C2_EmptyListFallback ==
    (GenerateDone /\ recs = <<>>) =>
        /\ outcome = "returned"
        /\ msg = profile.name \o ", estamos buscando las mejores opciones para ti."
        /\ Len(msg) <= 500

\* C3: no element of the list recommend returns has a score of zero or less.
C3_NoNonPositiveScore ==
    RecommendDone => \A k \in 1..Len(recs) : recs[k].score > 0

\* C3 witness: an entry of the catalog scored zero or less, others were
\* returned, and top_n left room for it.
C3_Witness ==
    /\ RecommendDone
    /\ \E i \in 1..Len(products) : scores[i] <= 0
    /\ recs # <<>>
    /\ Len(recs) < top_n

\* C4: the list recommend returns has at most top_n elements, and is the
\* first top_n entries of the positively scored entries in score order; it is
\* empty when the catalog is empty.
C4_AtMostTopN ==
    RecommendDone =>
        LET positive == {i \in 1..Len(products) : scores[i] > 0}
        IN  /\ Len(recs) <= top_n
            /\ Len(recs) = Min(top_n, Cardinality(positive))
            /\ \A k \in 1..Len(recs) :
                  /\ Position(recs[k].product) \in positive
                  /\ \A i \in positive :
                        scores[i] > recs[k].score => \E j \in 1..(k - 1) : recs[j].product = products[i]
            /\ (products = <<>> => recs = <<>>)

\* C5: the list recommend returns is in descending score order, and entries
\* of equal score keep the order they have in the catalog.
C5_OrderedStable ==
    RecommendDone =>
        \A j \in 1..Len(recs) : \A k \in (j + 1)..Len(recs) :
            /\ recs[j].score >= recs[k].score
            /\ recs[j].score = recs[k].score =>
                  Position(recs[j].product) < Position(recs[k].product)

\* C5 witness: two returned entries tie, and the first of the result
\* outranked an earlier catalog entry that also scored above zero.
C5_Witness ==
    /\ RecommendDone
    /\ \E j \in 1..Len(recs) : \E k \in (j + 1)..Len(recs) :
          recs[j].score = recs[k].score
    /\ \E i \in 1..Len(products) :
          /\ i < Position(recs[1].product)
          /\ scores[i] > 0
          /\ scores[i] < recs[1].score

\* C6: a call of recommend with a negative top_n ends in a validation error
\* before any entry is scored and returns nothing.
C6_NegativeTopNRaises ==
    (RecommendDone /\ top_n < 0) =>
        /\ outcome = "raised"
        /\ recs = <<>>
        /\ scores = <<>>

\* C7: tagging an already tagged entry again yields the same activity_types
\* and the same situation_tags.
C7_TagIdempotent ==
    (pc = "done" /\ op = "tag_product") =>
        /\ tag_product(tagged).activity_types = tagged.activity_types
        /\ tag_product(tagged).situation_tags = tagged.situation_tags

\* C7 witness: an entry was tagged with several traits and several situations.
C7_Witness ==
    /\ pc = "done" /\ op = "tag_product"
    /\ Len(tagged.activity_types) >= 2
    /\ Len(tagged.situation_tags) >= 2

\* C8: for a situation type that is not a key of the Knowledge Base the
\* lookup is the empty record, recommend returns what the empty record
\* gives, and every score is the promotion bonus plus the hobby bonuses.
C8_UnknownCategory ==
    (RecommendDone /\ situation.type \notin DOMAIN SITUATION_CONFIG) =>
        LET empty == [beneficial |-> <<>>, avoid |-> <<>>, keywords |-> <<>>,
                      description |-> ""]
            bonus(p) == (IF p.promocion THEN 5 ELSE 0)
                        + 10 * Cardinality({h \in 1..Len(profile.hobbies) :
                                 \/ IsSubstr(Lower(profile.hobbies[h]), Lower(p.nombre))
                                 \/ IsSubstr(Lower(profile.hobbies[h]), Lower(p.subcategoria))})
        IN  /\ outcome = "returned"
            /\ get_config(situation.type) = empty
            /\ recs = RecommendWith(products, profile, empty, top_n)
            /\ \A i \in 1..Len(products) : scores[i] = bonus(products[i])
            /\ \A k \in 1..Len(recs) : recs[k].score = bonus(recs[k].product)

\* C8 witness: under an unknown situation type an entry with traits
\* beneficial elsewhere was returned on its promotion and hobby bonuses.
C8_Witness ==
    /\ RecommendDone
    /\ situation.type \notin DOMAIN SITUATION_CONFIG
    /\ \E k \in 1..Len(recs) :
          /\ recs[k].product.situation_tags # <<>>
          /\ recs[k].score >= 15

\* the hobbies C9 appends to the profile of the call
MoreHobbies == {"natación", "Yoga", "caminata", "ajedrez", "Arte"}

\* C9: appending one hobby to the profile never lowers an entry's score, and
\* raises it by exactly 10 when the hobby is in the entry's name or subcategory.
C9_HobbyMonotone ==
    RecommendDone =>
        \A i \in 1..Len(products) : \A hobby \in MoreHobbies :
            LET more == [profile EXCEPT !.hobbies = Append(@, hobby)]
                after == ScoreProduct(products[i], more, situation).score
                matches == \/ IsSubstr(Lower(hobby), Lower(products[i].nombre))
                           \/ IsSubstr(Lower(hobby), Lower(products[i].subcategoria))
            IN  /\ after >= scores[i]
                /\ matches => after = scores[i] + 10
                /\ ~matches => after = scores[i]

\* C9 witness: the profile already has a hobby that matches an entry, and
\* one of the appended hobbies matches it too.
C9_Witness ==
    /\ RecommendDone
    /\ \E i \in 1..Len(products) :
          /\ \E h \in 1..Len(profile.hobbies) :
                IsSubstr(Lower(profile.hobbies[h]), Lower(products[i].nombre))
          /\ \E hobby \in MoreHobbies : IsSubstr(Lower(hobby), Lower(products[i].nombre))

\* entry i has a trait the situation avoids and none it benefits from
AvoidOnly(i) ==
    /\ situation.type \in DOMAIN SITUATION_CONFIG
    /\ \E t \in Range(products[i].activity_types) :
          t \in Range(SITUATION_CONFIG[situation.type].avoid)
    /\ \A t \in Range(products[i].activity_types) :
          t \notin Range(SITUATION_CONFIG[situation.type].beneficial)

\* the keyword, hobby and promotion bonuses of entry i
Bonuses(i) ==
    15 * Cardinality({k \in 1..Len(SITUATION_CONFIG[situation.type].keywords) :
            IsSubstr(Lower(SITUATION_CONFIG[situation.type].keywords[k]),
                     Lower(products[i].nombre))})
    + 10 * Cardinality({h \in 1..Len(profile.hobbies) :
            \/ IsSubstr(Lower(profile.hobbies[h]), Lower(products[i].nombre))
            \/ IsSubstr(Lower(profile.hobbies[h]), Lower(products[i].subcategoria))})
    + (IF products[i].promocion THEN 5 ELSE 0)

RawId(raw) == Get(raw, "id", "")

\* the raw record lacks a name or an identifier
Malformed(raw) == Get(raw, "nombre", "") = "" \/ RawId(raw) = ""

\* C11: in the catalog loaded from the products file no two entries share an
\* identifier, and the entry kept for an identifier is the one built from the
\* first raw record carrying it, missing and empty identifiers included.
C11_DedupFirstWins ==
    /\ \A i, j \in 1..Len(products) : i # j => products[i].id # products[j].id
    /\ {products[i].id : i \in 1..Len(products)}
         = {RawId(products_file[k]) : k \in 1..Len(products_file)}
    /\ \A i \in 1..Len(products) :
          LET first == CHOOSE k \in 1..Len(products_file) :
                         /\ RawId(products_file[k]) = products[i].id
                         /\ \A m \in 1..(k - 1) : RawId(products_file[m]) # products[i].id
          IN  products[i] = tag_product(Product(products_file[first]))

\* C12: a raw record without a name or without an identifier never becomes
\* an entry of the loaded catalog, and so never appears in a result of recommend.
C12_MalformedRejected ==
    /\ Len(products) <= Cardinality({k \in 1..Len(products_file) : ~Malformed(products_file[k])})
    /\ \A i \in 1..Len(products) : products[i].nombre # "" /\ products[i].id # ""
    /\ RecommendDone =>
          \A k \in 1..Len(recs) : recs[k].product.nombre # "" /\ recs[k].product.id # ""

Tokens == {"", "002", "anon-123"}

\* the texts a card holds
CardTexts(card) ==
    {card.title, card.subtitle, card.explanation, card.product.id,
     card.product.nombre, card.product.categoria, card.product.subcategoria,
     card.product.url, card.product.imagen_url}
    \cup Range(card.product.activity_types)

\* C14: the cards of create_hr_cards and the notification of hr_accept do not
\* hold the profile's user_id, and are the same for a profile that differs
\* only in its user_id (the calming sentence drawn being the same).
C14_NoIdentityForwarded ==
    /\ (pc = "done" /\ op = "create_hr_cards") =>
          /\ \A k \in 1..Len(cards) :
                /\ DOMAIN cards[k] = {"product", "title", "subtitle", "explanation",
                                      "estimated_productivity_uplift_percent", "score"}
                /\ \A t \in CardTexts(cards[k]) : ~IsSubstr(profile.user_id, t)
          /\ \A token \in Tokens :
                cards = create_hr_cards(products, [profile EXCEPT !.user_id = token],
                                        situation, calming)
    /\ (pc = "done" /\ op = "hr_accept") =>
          /\ DOMAIN notification = {"to_employee", "anonymous", "message", "intervention"}
          /\ DOMAIN notification.intervention
               = {"title", "url", "estimated_productivity_uplift_percent"}
          /\ ~IsSubstr(profile.user_id, notification.message)
          /\ ~IsSubstr(profile.user_id, notification.intervention.title)
          /\ ~IsSubstr(profile.user_id, notification.intervention.url)
          /\ \A token \in Tokens :
                notification = hr_accept(products, [profile EXCEPT !.user_id = token],
                                         situation, accepted, calming)

\* C14 witness: a notification was built for a profile with hobbies and
\* goals; it names the person and the accepted product.
C14_Witness ==
    /\ pc = "done" /\ op = "hr_accept"
    /\ profile.hobbies # <<>> /\ profile.goals # <<>>
    /\ IsSubstr(profile.name, notification.message)
    /\ notification.intervention.title = accepted.product.nombre
    /\ Len(recs) >= 2

\* C15: an assembled message of more than 500 characters is cut right after
\* the last period of its first 497 characters when that period is at an
\* index above 300, and otherwise at the last space of its first 497
\* characters, with an ellipsis appended; a message of at most 500 characters
\* is returned as assembled.
C15_TruncationPolicy ==
    (GenerateDone /\ recs # <<>>) =>
        LET assembled == WithGoal(profile, Assemble(profile, situation, recs[1], calming))
            window == Prefix(assembled, 497)
            last_period == RFind(window, ".")
            last_space == RFind(window, " ")
        IN  IF Len(assembled) <= 500 THEN msg = assembled
            ELSE IF last_period > 300 THEN msg = Prefix(assembled, last_period + 1)
            ELSE msg = Prefix(window, last_space) \o "..."

\* C16: the orchestrator composes and adds nothing: its message is generate
\* on the list recommend returns for the same profile, situation and top_n,
\* message_length is the length of that message, recommendations lists the
\* same entries in the same order with their id, score and reasons, and
\* context holds the profile's and the situation's fields as given.
C16_PureComposition ==
    (pc = "done" /\ op = "orchestrate") =>
        LET rs == recommend(products, profile, situation, top_n)
        IN  /\ DOMAIN response = {"message", "message_length", "recommendations", "context"}
            /\ response.message = generate(profile, situation, rs, calming)
            /\ response.message_length = Len(generate(profile, situation, rs, calming))
            /\ Len(response.recommendations) = Len(rs)
            /\ \A k \in 1..Len(rs) :
                  /\ response.recommendations[k].product.id = rs[k].product.id
                  /\ response.recommendations[k].product.nombre = rs[k].product.nombre
                  /\ response.recommendations[k].score = rs[k].score
                  /\ response.recommendations[k].reasons = rs[k].reasons
            /\ response.context.profile_name = profile.name
            /\ response.context.profile_age = profile.age
            /\ response.context.hobbies = profile.hobbies
            /\ response.context.goals = profile.goals
            /\ response.context.situation_type = situation.type
            /\ response.context.situation_subtype = situation.subtype
            /\ response.context.situation_context = situation.context

\* C16 witness: the orchestrator returned two entries for a profile whose
\* hobbies are not all lower-case and which has a goal.
C16_Witness ==
    /\ pc = "done" /\ op = "orchestrate"
    /\ Len(response.recommendations) >= 2
    /\ \E h \in 1..Len(profile.hobbies) : Lower(profile.hobbies[h]) # profile.hobbies[h]
    /\ profile.goals # <<>>
    /\ response.message_length > 100

\* the ages C17 gives the profile of the call
Ages == {5, 19, 35, 59, 80}

\* C17: the profile's age contributes to the score: in a call on a catalog
\* that is not empty there is an entry that scores 20 more for one age than
\* for another.
C17_AgeBonus ==
    (RecommendDone /\ products # <<>>) =>
        \E i \in 1..Len(products) : \E a, b \in Ages :
            ScoreProduct(products[i], [profile EXCEPT !.age = a], situation).score
              = ScoreProduct(products[i], [profile EXCEPT !.age = b], situation).score + 20

\* C18: create_hr_cards returns at most two cards, built from the top
\* matches in ranking order, the first of each product identifier; their
\* product identifiers are pairwise distinct, and each card keeps the id, the
\* name and the URL of its catalog entry.
C18_TwoDistinctCards ==
    (pc = "done" /\ op = "create_hr_cards") =>
        LET ids == {recs[k].product.id : k \in 1..Len(recs)}
        IN  /\ recs = recommend(products, profile, situation, 4)
            /\ Len(cards) <= 2
            /\ Len(cards) = Min(2, Cardinality(ids))
            /\ \A j, k \in 1..Len(cards) : j # k => cards[j].product.id # cards[k].product.id
            /\ Len(cards) >= 1 => cards[1].product = RecDict(recs[1]).product
            /\ Len(cards) = 2 =>
                  LET second == CHOOSE k \in 1..Len(recs) :
                                  /\ recs[k].product.id # recs[1].product.id
                                  /\ \A m \in 1..(k - 1) : recs[m].product.id = recs[1].product.id
                  IN  cards[2].product = RecDict(recs[second]).product
            /\ \A k \in 1..Len(cards) :
                  \E i \in 1..Len(products) :
                      /\ cards[k].product.id = products[i].id
                      /\ cards[k].product.nombre = products[i].nombre
                      /\ cards[k].product.url = products[i].url
                      /\ cards[k].title = products[i].nombre

\* C18 witness: two cards were built, and a match ranked between them was
\* passed over because it has the identifier of the first card.
C18_Witness ==
    /\ pc = "done" /\ op = "create_hr_cards"
    /\ Len(cards) = 2
    /\ Len(recs) >= 3
    /\ recs[2].product.id = recs[1].product.id
    /\ cards[2].product.id = recs[3].product.id

C20_TraitsFromKeywords ==
    (pc = "done" /\ op = "tag_product") =>
        LET blob == Lower(tagged.nombre \o " " \o tagged.categoria_principal \o " "
                          \o tagged.subcategoria \o " "
                          \o (IF tagged.descripcion = None THEN "" ELSE tagged.descripcion))
            found == {a \in DOMAIN ACTIVITY_KEYWORDS :
                        \E k \in 1..Len(ACTIVITY_KEYWORDS[a]) :
                            IsSubstr(ACTIVITY_KEYWORDS[a][k], blob)}
            traits == IF found = {} THEN {"general"} ELSE found
        IN  /\ Range(tagged.activity_types) = traits
            /\ Len(tagged.activity_types) = Cardinality(traits)
            /\ Len(tagged.activity_types) >= 1

\* C20 witness: an entry got a trait whose only keywords are in its description.
C20_Witness ==
    /\ pc = "done" /\ op = "tag_product"
    /\ tagged.descripcion # None
    /\ \E a \in Range(tagged.activity_types) :
          /\ a \in DOMAIN ACTIVITY_KEYWORDS
          /\ \A k \in 1..Len(ACTIVITY_KEYWORDS[a]) :
                ~IsSubstr(ACTIVITY_KEYWORDS[a][k],
                          Lower(tagged.nombre \o " " \o tagged.categoria_principal
                                \o " " \o tagged.subcategoria))

\* C21: after tag_product, a category of the knowledge base is among the
\* entry's situation_tags exactly when the entry's final activity_types (the
\* fallback "general" included) share a trait with the category's beneficial
\* set; the tags are listed once each, in the order of the knowledge base.
C21_TagsFromFinalTraits ==
    (pc = "done" /\ op = "tag_product") =>
        /\ \A c \in DOMAIN SITUATION_CONFIG :
              c \in Range(tagged.situation_tags)
              <=> Range(tagged.activity_types)
                    \cap Range(SITUATION_CONFIG[c].beneficial) # {}
        /\ Range(tagged.situation_tags) \subseteq DOMAIN SITUATION_CONFIG
        /\ Cardinality(Range(tagged.situation_tags)) = Len(tagged.situation_tags)

\* tag_product has returned an entry with the fallback trait, and it has no tag
C21_Witness ==
    /\ pc = "done"
    /\ op = "tag_product"
    /\ tagged.activity_types = <<"general">>
    /\ tagged.situation_tags = <<>>

\* the opening of a message with the given confrontation phrase
Opening(phrase) == profile.name \o ", sé que hoy te toca " \o phrase \o ". "

\* the message starts with the text, as far as the cut of a long message
\* (which ends it with a full stop or three dots) leaves it
StartsWith(text) ==
    LET k == Min(Len(text), Len(msg) - 3)
    IN  Prefix(msg, k) = Prefix(text, k)

\* C22: generate returns for every situation; with a recommendation, the
\* message opens with the pair's own confrontation phrase when category and
\* subtype are known, with the category's "general" phrase when only the
\* category is known, and with "enfrentar este momento" when the category is
\* unknown, whatever the subtype.
C22_ConfrontationFallbacks ==
    (GenerateDone /\ recs # <<>>) =>
        /\ outcome = "returned"
        /\ StartsWith(Opening(
              IF situation.type \notin DOMAIN SITUATION_CONFIG
              THEN "enfrentar este momento"
              ELSE IF situation.subtype \in DOMAIN CONFRONTATION[situation.type]
                   THEN CONFRONTATION[situation.type][situation.subtype]
                   ELSE CONFRONTATION[situation.type]["general"]))

\* a message for a known category with a subtype the category does not
\* know, short enough to be returned whole
C22_Witness ==
    /\ GenerateDone
    /\ recs # <<>>
    /\ Len(msg) < 400
    /\ situation.type = "ansiedad"
    /\ situation.subtype \notin DOMAIN CONFRONTATION["ansiedad"]

\* the connection clause the hobbies and the entry give when a hobby counts
\* as matching if it is a substring of the entry's name or of its subcategory
NameOrSubcategoryClause(hobbies, product) ==
    LET hits == SelectSeq(hobbies,
                          LAMBDA hobby :
                            \/ IsSubstr(Lower(hobby), Lower(product.nombre))
                            \/ IsSubstr(Lower(hobby), Lower(product.subcategoria)))
    IN  IF hits # <<>>
        THEN "aprovechando tu gusto por " \o Lower(hits[1])
             \o ", te recomendamos " \o product.nombre
        ELSE IF hobbies # <<>>
        THEN "combinando tu interés en " \o Lower(hobbies[1])
             \o " con algo nuevo, te sugerimos " \o product.nombre
        ELSE "te recomendamos " \o product.nombre

\* C23: the connection clause is built from the top match only: the first
\* hobby, in the profile's order, that is a substring of the top match's name
\* or subcategory gives "aprovechando tu gusto por"; without such a hobby
\* the first hobby gives "combinando tu interés en"; without hobbies the
\* clause is the activity name alone.
C23_ConnectionClause ==
    (GenerateDone /\ recs # <<>>) =>
        StartsWith(Opening(Confrontation(situation))
                   \o CalmOptions(situation.type)[calming] \o " Por eso, "
                   \o NameOrSubcategoryClause(profile.hobbies, recs[1].product))

\* clauses 1 to 3 of the message: confrontation, calming sentence, connection
UpToConnection ==
    Opening(Confrontation(situation)) \o CalmOptions(situation.type)[calming]
    \o " Por eso, " \o connect_hobby(profile.hobbies, recs[1].product)

\* the positions of the top match's traits that have a benefit sentence
WithBenefit ==
    {i \in 1..Len(recs[1].product.activity_types) :
        recs[1].product.activity_types[i] \in DOMAIN ACTIVITY_BENEFITS}

\* C24: the benefit clause is the benefit sentence of the first trait, in the
\* top match's trait order, that has an entry in the benefit table, appended
\* after a dash and ended with a full stop; when no trait has an entry the
\* message has no benefit clause and no dash.
C24_BenefitClause ==
    (GenerateDone /\ recs # <<>>) =>
        IF WithBenefit = {}
        THEN /\ msg = Truncate(WithGoal(profile, UpToConnection))
             /\ ~IsSubstr(" " \o EmDash \o " ", msg)
        ELSE LET first == CHOOSE i \in WithBenefit : \A j \in WithBenefit : i <= j
                 benefit == ACTIVITY_BENEFITS[recs[1].product.activity_types[first]]
             IN  msg = Truncate(WithGoal(profile,
                           UpToConnection \o " " \o EmDash \o " " \o benefit \o "."))

\* a message returned whole for a top match whose first trait has no benefit
\* sentence while a later one has
C24_Witness ==
    /\ GenerateDone
    /\ recs # <<>>
    /\ Len(msg) < 400
    /\ WithBenefit # {}
    /\ 1 \notin WithBenefit

\* C25: the goal clause is appended exactly when the profile has at least
\* one goal and the message assembled from clauses 1 to 4 has fewer than 420
\* characters; the clause names the first goal, lower-cased, and no other.
C25_GoalClause ==
    (GenerateDone /\ recs # <<>>) =>
        LET assembled == Assemble(profile, situation, recs[1], calming)
        IN  msg = Truncate(IF profile.goals # <<>> /\ Len(assembled) < 420
                           THEN assembled \o " Un paso hacia "
                                \o Lower(profile.goals[1]) \o "."
                           ELSE assembled)

\* a profile with goals got a message of 420 to 499 characters, returned
\* whole and without goal clause
C25_Witness ==
    /\ GenerateDone
    /\ recs # <<>>
    /\ profile.goals # <<>>
    /\ Len(msg) >= 420
    /\ Len(msg) < 500
    /\ msg = Assemble(profile, situation, recs[1], calming)

\* C26: every category of the knowledge base has a pool of exactly 3 calming
\* sentences; the sentence of a message is the drawn member of the pool of
\* the situation's category, or the single generic sentence for an unknown
\* category; the inputs and the draw determine the whole message.
C26_CalmingOnlyVariation ==
    /\ \A c \in DOMAIN SITUATION_CONFIG :
          /\ c \in DOMAIN CALMING
          /\ Len(CALMING[c]) = 3
          /\ Cardinality(Range(CALMING[c])) = 3
    /\ (GenerateDone /\ recs # <<>>) =>
          LET pool == IF situation.type \in DOMAIN SITUATION_CONFIG
                      THEN CALMING[situation.type]
                      ELSE <<"Lo que sientes es válido.">>
          IN  /\ calming \in 1..Len(pool)
              /\ StartsWith(Opening(Confrontation(situation))
                            \o pool[calming] \o " Por eso, ")
              /\ msg = generate(profile, situation, recs, calming)

\* the third sentence of a category's pool was drawn, and the message is
\* returned whole
C26_Witness ==
    /\ GenerateDone
    /\ recs # <<>>
    /\ situation.type \in DOMAIN SITUATION_CONFIG
    /\ calming = 3
    /\ Len(msg) < 400
    /\ IsSubstr(CALMING[situation.type][3], msg)

\* free texts a situation can carry instead of its own
Contexts == {"", "Acaba de perder a sus padres por enfermedad"}

\* the situation of the call with another free text
WithContext(c) == [situation EXCEPT !.context = c]

\* C27: the free text situation.context influences neither the scoring nor
\* the message: with any other context the ranked list is the same and,
\* for the same draw of the calming sentence, so is the message; the
\* orchestrator echoes the context in the field situation_context of its
\* result and uses it nowhere else.
C27_ContextIgnored ==
    \A c \in Contexts :
        /\ RecommendDone =>
              /\ recs = recommend(products, profile, WithContext(c), top_n)
              /\ scores = LoopScores(products, profile, WithContext(c))
        /\ GenerateDone => msg = generate(profile, WithContext(c), recs, calming)
        /\ (pc = "done" /\ op = "orchestrate") =>
              /\ response.context.situation_context = situation.context
              /\ response = [Response(profile, WithContext(c), recs, msg)
                               EXCEPT !.context.situation_context = situation.context]

\* the orchestrator returned a ranked list and a message for a situation
\* whose context is none of the texts it is compared with
C27_Witness ==
    /\ pc = "done"
    /\ op = "orchestrate"
    /\ recs # <<>>
    /\ situation.context \notin Contexts
    /\ situation.context # ""
    /\ response.context.situation_context = situation.context

\* C28: loading the catalog again is a full rebuild that becomes visible at
\* once: a call of recommend made while _load_products runs works on a
\* complete catalog (the one of the previous load or the one of the new
\* file), and once the load is over the catalog is the tagged, deduplicated
\* content of the new file alone.
C28_AtomicFullRebuild ==
    /\ RecommendDone =>
          \E file \in {loaded_file, products_file} :
              /\ products = load_products(file)
              /\ recs = recommend(load_products(file), profile, situation, top_n)
    /\ load_i = 0 => products = load_products(products_file)

\* C29: in the HR flow, the activity the employee message recommends is the
\* product of the accepted card: for either card of create_hr_cards, the
\* message of hr_accept names the product whose name and URL are the
\* intervention's title and url.  Stated for the profiles whose name leaves
\* the recommendation inside the 500 characters of the message.
C29_MessageNamesAcceptedProduct ==
    (pc = "done" /\ op = "hr_accept" /\ Len(profile.name) <= 20) =>
        /\ notification.intervention.title = accepted.product.nombre
        /\ notification.intervention.url = accepted.product.url
        /\ \/ IsSubstr("te recomendamos " \o accepted.product.nombre,
                       notification.message)
           \/ IsSubstr("te sugerimos " \o accepted.product.nombre,
                       notification.message)

\* C30: on a catalog whose traits the tagger assigned, the avoid penalty is
\* never applied for a category of the knowledge base: no trait the tagger
\* can assign, "general" included, is in an avoid set, so every score is
\* non-negative, and an entry left out while the result has room for more
\* has score exactly 0.
C30_NoAvoidOnTaggedCatalog ==
    /\ \A c \in DOMAIN SITUATION_CONFIG :
          (Range(ActivityOrder) \cup {"general"})
              \cap Range(SITUATION_CONFIG[c].avoid) = {}
    /\ RecommendDone =>
          \A i \in 1..Len(products) :
              /\ Range(products[i].activity_types)
                    \subseteq Range(ActivityOrder) \cup {"general"}
              /\ Range(products[i].activity_types)
                    \cap Range(get_config(situation.type).avoid) = {}
              /\ scores[i] >= 0
              /\ (~Returned(i) /\ Len(recs) < top_n) => scores[i] = 0

\* for a category with traits to avoid, an entry with the fallback trait and
\* score 0 is left out of a result that has room for more, and another entry
\* is returned
C30_Witness ==
    /\ RecommendDone
    /\ get_config(situation.type).avoid # <<>>
    /\ recs # <<>>
    /\ Len(recs) < top_n
    /\ \E i \in 1..Len(products) :
          /\ products[i].activity_types = <<"general">>
          /\ scores[i] = 0
          /\ ~Returned(i)

=============================================================================
